---- MODULE Spec2Model ----
(***************************************************************************)
(* Model of the native LLaMA session wrapper                               *)
(* (composeApp/src/native/cpp/llama_wrapper.cpp).                          *)
(*                                                                         *)
(* One Session (LlamaContextInternal) and the inference engine it drives.  *)
(* The engine (llama.cpp) is a black box: every engine call that can fail  *)
(* is a nondeterministic choice over its outcomes.  The engine state that  *)
(* the wrapper's contract talks about is kept explicitly: which engine     *)
(* objects are allocated, the order in which they were released, the set   *)
(* of positions the KV cache holds for sequence 0, and whether logits are  *)
(* available.                                                              *)
(***************************************************************************)
EXTENDS Integers, Sequences, FiniteSets, TLC

----------------------------------------------------------------------------
(* Bounds of the exploration *)

\* GenerateNextToken is explored while the tracked sequence is shorter.
MaxSeqLen == 4
\* The small context window passed to Create (besides the default).
SmallNCtx == 3
\* With two Sessions, GenerateNextToken is explored while the tracked
\* sequence of the calling Session is shorter.
TwoMaxSeqLen == 2

----------------------------------------------------------------------------
(* Program constants and vocabulary *)

\* internal->n_ctx = n_ctx > 0 ? n_ctx : 2048
DefaultNCtx == 2048

NULL == "nullptr"

\* Token ids of the modelled vocabulary.
BOS == 0
EOG == 1
TokA == 2
TokB == 3
Vocab == {BOS, EOG, TokA, TokB}
\* The token ids the sampler chain is explored to draw.
SampledTokens == {EOG, TokA, TokB}

\* C strings: a char* is null or points to a text (a sequence of characters).
NullStr == [null |-> TRUE, text |-> <<>>]
CStr(t) == [null |-> FALSE, text |-> t]

\* Arguments the callers pass.
Paths == {"model.gguf", "missing.gguf"}
NCtxArgs == {-1, 0, SmallNCtx}
GpuLayerArgs == {0}
SystemPromptArgs == {NullStr, CStr(<<>>), CStr(<<"a">>)}
UserPromptArgs == {NullStr, CStr(<<>>), CStr(<<"b">>), CStr(<<"a", "b">>)}
CtxArgs == {NULL, "session"}
MaxTokensArgs == {1, 512}
\* The threads that drive Sessions, one Session each.
Threads == {1, 2}
\* No token was sampled by the call.
NoToken == -1

\* Non-zero return codes of llama_decode.
DecodeFailCodes == {1, -1}

----------------------------------------------------------------------------
VARIABLES
    phase,          \* "none" | "live" | "destroyed" | "crashed"
    \* LlamaContextInternal
    model, ctx, sampler, vocab,
    tokens, system_prompt, last_error, loaded, n_ctx, n_gpu_layers,
    \* engine
    eng_live,       \* engine objects allocated and not yet released
    eng_freed,      \* engine objects in the order they were released
    kv,             \* positions the KV cache holds for sequence 0
    logits,         \* "none" | "stale" | "fresh"
    \* the last call: operation, arguments, return value, batch submitted
    op, arg_ctx, arg_prompt, arg_max_tokens, ret, batch,
    result,         \* what llama_decode returned in the last call, 0 if none
    sampled,        \* what llama_sampler_sample returned in the last call
    \* generation run since the last successful prefill
    run,
    \* the process: the thread-local buffer of GenerateNextToken per thread,
    \* the running thread, and the Session of the other thread
    result_str, thread, other

session == <<model, ctx, sampler, vocab, tokens, system_prompt, last_error,
             loaded, n_ctx, n_gpu_layers>>
engine == <<eng_live, eng_freed, kv, logits>>
call == <<op, arg_ctx, arg_prompt, arg_max_tokens, ret, batch, result,
          sampled>>
own == <<phase, session, engine, call, run>>
vars == <<own, result_str, thread, other>>

\* L: length of the last successful prefill; k: text fragments returned in
\* a row since; r: that prefill came right after a Reset.
NoRun == [L |-> -1, k |-> 0, r |-> FALSE]

----------------------------------------------------------------------------
(* Pure helpers *)

TokenOf(c) == IF c = "a" THEN TokA ELSE TokB

\* common_tokenize(vocab, text, add_special, parse_special): one token per
\* character, preceded by the vocabulary's BOS token when add_special.
common_tokenize(text, add_special) ==
    (IF add_special THEN <<BOS>> ELSE <<>>)
        \o [i \in 1..Len(text) |-> TokenOf(text[i])]

\* Mutant: no token ends the generation.
llama_vocab_is_eog_never(tok) == FALSE

llama_vocab_is_eog(tok) == tok = EOG

common_token_to_piece(tok) ==
    CASE tok = BOS -> "<bos>"
      [] tok = EOG -> "<eos>"
      [] tok = TokA -> "a"
      [] OTHER -> "b"

to_string(code) == IF code = 1 THEN "1" ELSE "-1"

\* Return values, as the caller sees them: <<kind, value>>.
RetOk == <<"int", "0">>
RetFail == <<"int", "-1">>
RetNull == <<"ptr", "nullptr">>
RetVoid == <<"void", "">>
RetHandle == <<"ptr", "session">>
NoReturn == <<"none", "">>
RetText(s) == <<"str", s>>

\* std::string error texts: a sequence of parts, empty for the empty string.
ErrNone == <<>>
ErrLoad(path) == <<"Failed to load model from: ", path>>
ErrCreateCtx == <<"Failed to create context">>
ErrNotLoaded == <<"Model not loaded">>
ErrTokenize == <<"Failed to tokenize user prompt">>
ErrNoTokens == <<"No tokens to decode">>
ErrDecode(code) == <<"Failed to decode prompt (code: ", to_string(code), ")">>

----------------------------------------------------------------------------
(* The engine, as the wrapper uses it *)

\* llama_decode(ctx, batch): 0 on success, non-zero on failure.  Any decode
\* may fail; a batch with an entry positioned at or beyond the context
\* window always does.  A failed decode leaves the cache as it was.
DecodeOutcomes(b, window) ==
    IF \E i \in 1..Len(b) : b[i].pos >= window
    THEN DecodeFailCodes
    ELSE {0} \cup DecodeFailCodes

BatchPositions(b) == {b[i].pos : i \in 1..Len(b)}

\* Logits no longer belong to the tracked sequence.
Stale(l) == IF l = "none" THEN "none" ELSE "stale"

\* llama_sampler_free / llama_free / llama_model_free on a non-null handle.
Release(handles) == SelectSeq(handles, LAMBDA x : x # NULL)

SeqToSet(s) == {s[i] : i \in 1..Len(s)}

----------------------------------------------------------------------------
\* Everything one Session and its engine objects hold, with its last call.
Saved ==
    [phase |-> phase, model |-> model, ctx |-> ctx, sampler |-> sampler,
     vocab |-> vocab, tokens |-> tokens, system_prompt |-> system_prompt,
     last_error |-> last_error, loaded |-> loaded, n_ctx |-> n_ctx,
     n_gpu_layers |-> n_gpu_layers, eng_live |-> eng_live,
     eng_freed |-> eng_freed, kv |-> kv, logits |-> logits, op |-> op,
     arg_ctx |-> arg_ctx, arg_prompt |-> arg_prompt,
     arg_max_tokens |-> arg_max_tokens, ret |-> ret, batch |-> batch,
     result |-> result, sampled |-> sampled, run |-> run]

Init ==
    /\ phase = "none"
    /\ model = NULL /\ ctx = NULL /\ sampler = NULL /\ vocab = NULL
    /\ tokens = <<>> /\ system_prompt = <<>> /\ last_error = ErrNone
    /\ loaded = FALSE /\ n_ctx = DefaultNCtx /\ n_gpu_layers = 0
    /\ eng_live = {} /\ eng_freed = <<>> /\ kv = {} /\ logits = "none"
    /\ op = "init" /\ arg_ctx = NULL /\ arg_prompt = NullStr
    /\ arg_max_tokens = 0
    /\ ret = NoReturn /\ batch = <<>> /\ result = 0 /\ sampled = NoToken
    /\ run = NoRun
    /\ result_str = [t \in Threads |-> ""]
    /\ thread = 1
    /\ other = Saved

----------------------------------------------------------------------------
(* llama_create_context *)

\* internal->n_ctx = n_ctx > 0 ? n_ctx : 2048;
CreateNCtx(n) == IF n > 0 THEN n ELSE DefaultNCtx

\* Mutant: the freed model handle is left dangling in the Session.
ModelAfterCtxFailure_dangling == "model"

\* The model handle the Session keeps when context creation failed:
\* llama_model_free(internal->model); internal->model = nullptr;
ModelAfterCtxFailure == NULL

\* load_ok, ctx_ok, sampler_ok: what llama_model_load_from_file,
\* llama_init_from_model and llama_sampler_chain_init return (non-null or
\* null).  The result of llama_sampler_chain_init is not checked: with a
\* null chain, llama_sampler_chain_add dereferences null, which is undefined
\* behaviour: the process dies (ub_crash) or Create goes on.
llama_create_context(model_path, n, g, load_ok, ctx_ok, sampler_ok, ub_crash) ==
    /\ phase = "none"
    /\ op' = "create" /\ arg_ctx' = NULL /\ arg_prompt' = NullStr
    /\ arg_max_tokens' = 0
    /\ batch' = <<>> /\ result' = 0 /\ sampled' = NoToken
    /\ UNCHANGED <<result_str, thread, other>>
    /\ n_ctx' = CreateNCtx(n)
    /\ n_gpu_layers' = g
    /\ UNCHANGED <<tokens, system_prompt, kv, logits, run>>
    /\ IF ~load_ok THEN
            /\ model' = NULL /\ ctx' = NULL /\ sampler' = NULL /\ vocab' = NULL
            /\ last_error' = ErrLoad(model_path)
            /\ loaded' = FALSE
            /\ eng_live' = {} /\ eng_freed' = <<>>
            /\ phase' = "live" /\ ret' = RetHandle
       ELSE IF ~ctx_ok THEN
            /\ model' = ModelAfterCtxFailure
            /\ ctx' = NULL /\ sampler' = NULL /\ vocab' = "vocab"
            /\ last_error' = ErrCreateCtx
            /\ loaded' = FALSE
            /\ eng_live' = {} /\ eng_freed' = <<"model">>
            /\ phase' = "live" /\ ret' = RetHandle
       ELSE IF ~sampler_ok THEN
            /\ model' = "model" /\ ctx' = "ctx" /\ sampler' = NULL
            /\ vocab' = "vocab"
            /\ last_error' = ErrNone
            /\ eng_live' = {"model", "ctx"} /\ eng_freed' = <<>>
            /\ IF ub_crash
               THEN loaded' = FALSE /\ phase' = "crashed" /\ ret' = NoReturn
               ELSE loaded' = TRUE /\ phase' = "live" /\ ret' = RetHandle
       ELSE
            /\ model' = "model" /\ ctx' = "ctx" /\ sampler' = "sampler"
            /\ vocab' = "vocab"
            /\ last_error' = ErrNone
            /\ loaded' = TRUE
            /\ eng_live' = {"model", "ctx", "sampler"} /\ eng_freed' = <<>>
            /\ phase' = "live" /\ ret' = RetHandle

----------------------------------------------------------------------------
(* llama_destroy_context *)

\* The handles Destroy passes to the engine's release functions, in order:
\* sampler, runtime context, model; null handles are skipped.
DestroyOrder == Release(<<sampler, ctx, model>>)

llama_destroy_context(h) ==
    /\ phase = "live"
    /\ op' = "destroy" /\ arg_ctx' = h /\ arg_prompt' = NullStr
    /\ arg_max_tokens' = 0
    /\ batch' = <<>> /\ ret' = RetVoid /\ result' = 0 /\ sampled' = NoToken
    /\ UNCHANGED <<result_str, thread, other>>
    /\ UNCHANGED <<session, logits, run>>
    /\ IF h = NULL
       THEN UNCHANGED <<phase, eng_live, eng_freed, kv>>
       ELSE /\ phase' = "destroyed"
            /\ eng_freed' = eng_freed \o DestroyOrder
            /\ eng_live' = eng_live \ SeqToSet(DestroyOrder)
            /\ kv' = {}

\* bool llama_is_loaded(ctx)
llama_is_loaded(h) == IF h = NULL THEN FALSE ELSE loaded

\* const char* llama_get_error(ctx)
llama_get_error(h) == IF h = NULL THEN <<"Invalid context">> ELSE last_error

----------------------------------------------------------------------------
(* llama_set_system_prompt *)

\* Mutant: the loaded flag is not checked.
llama_set_system_prompt_unguarded(h, p) ==
    /\ phase = "live"
    /\ op' = "set_system_prompt" /\ arg_ctx' = h /\ arg_prompt' = p
    /\ arg_max_tokens' = 0
    /\ batch' = <<>> /\ result' = 0 /\ sampled' = NoToken
    /\ UNCHANGED <<result_str, thread, other>>
    /\ UNCHANGED <<phase, model, ctx, sampler, vocab, loaded, n_ctx,
                   n_gpu_layers, eng_live, eng_freed, kv, last_error>>
    /\ IF h = NULL THEN
            /\ ret' = RetFail
            /\ UNCHANGED <<tokens, system_prompt, logits, run>>
       ELSE
            /\ system_prompt' = (IF p.null THEN <<>> ELSE p.text)
            /\ tokens' = <<>>
            /\ ret' = RetOk
            /\ logits' = Stale(logits)
            /\ run' = NoRun

\* Mutant: the tracked sequence is kept.
TokensAfterSetSystemPrompt_kept == tokens

\* internal->tokens.clear();  // Reset conversation
TokensAfterSetSystemPrompt == <<>>

llama_set_system_prompt(h, p) ==
    /\ phase = "live"
    /\ op' = "set_system_prompt" /\ arg_ctx' = h /\ arg_prompt' = p
    /\ arg_max_tokens' = 0
    /\ batch' = <<>> /\ result' = 0 /\ sampled' = NoToken
    /\ UNCHANGED <<result_str, thread, other>>
    /\ UNCHANGED <<phase, model, ctx, sampler, vocab, loaded, n_ctx,
                   n_gpu_layers, eng_live, eng_freed, kv>>
    /\ IF h = NULL THEN
            /\ ret' = RetFail
            /\ UNCHANGED <<tokens, system_prompt, last_error, logits, run>>
       ELSE IF ~loaded THEN
            /\ last_error' = ErrNotLoaded
            /\ ret' = RetFail
            /\ UNCHANGED <<tokens, system_prompt, logits, run>>
       ELSE
            /\ system_prompt' = (IF p.null THEN <<>> ELSE p.text)
            /\ tokens' = TokensAfterSetSystemPrompt
            /\ ret' = RetOk
            /\ logits' = Stale(logits)
            /\ run' = NoRun
            /\ UNCHANGED last_error

----------------------------------------------------------------------------
(* llama_process_user_prompt *)

\* The tracked sequence rebuilt by ProcessUserPrompt up to the user tokens:
\* cleared, then the system prompt's tokens when one is stored.
SystemTokens ==
    IF system_prompt # <<>> THEN common_tokenize(system_prompt, TRUE) ELSE <<>>

UserTokens(p) == common_tokenize(p.text, FALSE)

\* Mutant: the tracked sequence is not cleared before it is rebuilt.
PromptTokens_no_clear(p) == tokens \o SystemTokens \o UserTokens(p)

\* tokens.clear(); then the system tokens, then the user tokens, inserted at
\* the end.
PromptTokens(p) == SystemTokens \o UserTokens(p)

\* Mutant: an empty user tokenization is not rejected.
UserTokenizeFailed_never(p) == FALSE

\* if (user_tokens.empty())
UserTokenizeFailed(p) == UserTokens(p) = <<>>

\* Mutant: the prefill batch requests logits on every entry.
PrefillBatch_all_logits(toks) ==
    [i \in 1..Len(toks) |->
        [token |-> toks[i], pos |-> i - 1, seq_id |-> 0, logits |-> TRUE]]

\* The prefill batch: every tracked token at its index, sequence 0, logits
\* on the last entry only.
PrefillBatch(toks) ==
    [i \in 1..Len(toks) |->
        [token |-> toks[i], pos |-> i - 1, seq_id |-> 0,
         logits |-> (i = Len(toks))]]

\* Mutant: a failed prefill decode restores the sequence held before.
TokensAfterPrefill_rollback(old, new, rc) == IF rc # 0 THEN old ELSE new

\* The tracked sequence after the prefill decode returned rc: the rebuilt
\* sequence, whatever rc is.
TokensAfterPrefill(old, new, rc) == new

\* Mutant: a successful call clears the error text.
ErrorAfterSuccess_cleared == ErrNone

\* The error text after a call that succeeded: not written.
ErrorAfterSuccess == last_error

\* max_tokens is not read.  rc is what llama_decode returns for the prefill
\* batch.
llama_process_user_prompt(h, p, max_tokens) ==
    /\ phase = "live"
    /\ op' = "process_user_prompt" /\ arg_ctx' = h /\ arg_prompt' = p
    /\ arg_max_tokens' = max_tokens
    /\ sampled' = NoToken
    /\ UNCHANGED <<result_str, thread, other>>
    /\ UNCHANGED <<phase, model, ctx, sampler, vocab, loaded, n_ctx,
                   n_gpu_layers, system_prompt, eng_live, eng_freed>>
    /\ IF h = NULL \/ p.null THEN
            /\ ret' = RetFail /\ batch' = <<>> /\ result' = 0
            /\ UNCHANGED <<tokens, last_error, kv, logits, run>>
       ELSE IF ~loaded THEN
            /\ last_error' = ErrNotLoaded
            /\ ret' = RetFail /\ batch' = <<>> /\ result' = 0
            /\ UNCHANGED <<tokens, kv, logits, run>>
       ELSE IF UserTokenizeFailed(p) THEN
            /\ tokens' = SystemTokens
            /\ last_error' = ErrTokenize
            /\ ret' = RetFail /\ batch' = <<>> /\ result' = 0
            /\ logits' = Stale(logits) /\ run' = NoRun
            /\ UNCHANGED kv
       ELSE IF PromptTokens(p) = <<>> THEN
            /\ tokens' = <<>>
            /\ last_error' = ErrNoTokens
            /\ ret' = RetFail /\ batch' = <<>> /\ result' = 0
            /\ logits' = Stale(logits) /\ run' = NoRun
            /\ UNCHANGED kv
       ELSE
            /\ batch' = PrefillBatch(PromptTokens(p))
            /\ \E rc \in DecodeOutcomes(batch', n_ctx) :
                /\ result' = rc
                /\ tokens' = TokensAfterPrefill(tokens, PromptTokens(p), rc)
                /\ IF rc # 0 THEN
                        /\ last_error' = ErrDecode(rc)
                        /\ ret' = RetFail
                        /\ logits' = Stale(logits) /\ run' = NoRun
                        /\ UNCHANGED kv
                   ELSE
                        /\ kv' = kv \cup BatchPositions(batch')
                        /\ ret' = RetOk
                        /\ logits' = "fresh"
                        /\ run' = [L |-> Len(tokens'), k |-> 0,
                                   r |-> (op = "reset" /\ arg_ctx = "session")]
                        /\ last_error' = ErrorAfterSuccess

----------------------------------------------------------------------------
(* llama_generate_next_token *)

\* Mutant: the step batch is always positioned at 0.
StepBatch_pos0(tok, toks) ==
    <<[token |-> tok, pos |-> 0, seq_id |-> 0, logits |-> TRUE]>>

\* The single-token batch of a generation step: the token just appended, at
\* position n_tokens - 1, sequence 0, logits requested.
StepBatch(tok, toks) ==
    <<[token |-> tok, pos |-> Len(toks) - 1, seq_id |-> 0, logits |-> TRUE]>>

\* The tracked sequence after a step whose decode returned rc.
TokensAfterStep(toks, rc) == toks

\* Mutant: the buffer is one static shared by every thread.
ResultStrAfter_static(buf, t, text) == [u \in DOMAIN buf |-> text]

\* static thread_local std::string result_str; result_str = token_str;
ResultStrAfter(buf, t, text) == [buf EXCEPT ![t] = text]

\* The token is what llama_sampler_sample returns, rc what llama_decode
\* returns.  Sampling through a null sampler chain dereferences null and
\* the process dies; sampling before any decode produced logits is undefined
\* behaviour in the engine: the process dies or some token comes back.
GenerateStep(tok) ==
    /\ sampled' = tok
    /\ IF llama_vocab_is_eog(tok) THEN
            /\ ret' = RetNull /\ batch' = <<>> /\ result' = 0
            /\ run' = NoRun
            /\ UNCHANGED <<phase, tokens, kv, logits, result_str>>
       ELSE
            /\ Len(tokens) < MaxSeqLen
            /\ batch' = StepBatch(tok, Append(tokens, tok))
            /\ UNCHANGED phase
            /\ \E rc \in DecodeOutcomes(batch', n_ctx) :
                /\ result' = rc
                /\ tokens' = TokensAfterStep(Append(tokens, tok), rc)
                /\ IF rc # 0 THEN
                        /\ ret' = RetNull
                        /\ logits' = Stale(logits) /\ run' = NoRun
                        /\ UNCHANGED <<kv, result_str>>
                   ELSE
                        /\ kv' = kv \cup BatchPositions(batch')
                        /\ ret' = RetText(common_token_to_piece(tok))
                        /\ result_str' = ResultStrAfter(result_str, thread,
                                            common_token_to_piece(tok))
                        /\ logits' = "fresh"
                        /\ run' = (IF run = NoRun THEN NoRun
                                   ELSE [run EXCEPT !.k = @ + 1])

GenerateCrash ==
    /\ phase' = "crashed"
    /\ ret' = NoReturn /\ batch' = <<>> /\ result' = 0 /\ sampled' = NoToken
    /\ UNCHANGED <<tokens, kv, logits, run, result_str>>

llama_generate_next_token(h) ==
    /\ phase = "live"
    /\ op' = "generate_next_token" /\ arg_ctx' = h /\ arg_prompt' = NullStr
    /\ arg_max_tokens' = 0
    /\ UNCHANGED <<thread, other>>
    /\ UNCHANGED <<model, ctx, sampler, vocab, loaded, n_ctx, n_gpu_layers,
                   system_prompt, last_error, eng_live, eng_freed>>
    /\ IF h = NULL \/ ~loaded THEN
            /\ ret' = RetNull /\ batch' = <<>> /\ result' = 0
            /\ sampled' = NoToken
            /\ UNCHANGED <<phase, tokens, kv, logits, run, result_str>>
       ELSE IF sampler = NULL THEN
            GenerateCrash
       ELSE IF logits = "none" THEN
            GenerateCrash \/ \E tok \in SampledTokens : GenerateStep(tok)
       ELSE
            \E tok \in SampledTokens : GenerateStep(tok)

----------------------------------------------------------------------------
(* llama_reset_context *)

\* llama_memory_clear(mem, true) on the context's memory.
\* Mutant: the KV cache is not cleared.
llama_memory_clear_skipped(cache) == cache

llama_memory_clear(cache) == {}

\* Mutant: Reset keeps the stored system prompt.
ResetSystemPrompt_kept == system_prompt

\* internal->system_prompt.clear();
ResetSystemPrompt == <<>>

llama_reset_context(h) ==
    /\ phase = "live"
    /\ op' = "reset" /\ arg_ctx' = h /\ arg_prompt' = NullStr
    /\ arg_max_tokens' = 0
    /\ batch' = <<>> /\ ret' = RetVoid /\ result' = 0 /\ sampled' = NoToken
    /\ UNCHANGED <<result_str, thread, other>>
    /\ UNCHANGED <<phase, model, ctx, sampler, vocab, loaded, n_ctx,
                   n_gpu_layers, last_error, eng_live, eng_freed>>
    /\ IF h = NULL \/ ~loaded THEN
            UNCHANGED <<tokens, system_prompt, kv, logits, run>>
       ELSE
            /\ kv' = (IF ctx # NULL THEN llama_memory_clear(kv) ELSE kv)
            /\ tokens' = <<>>
            /\ system_prompt' = ResetSystemPrompt
            /\ logits' = Stale(logits)
            /\ run' = NoRun

----------------------------------------------------------------------------
\* A call on a null handle is explored with one value of its other arguments,
\* and a max_tokens of 1 with the prompt of two characters.
Next ==
    \/ \E path \in Paths, n \in NCtxArgs, g \in GpuLayerArgs,
          load_ok, ctx_ok, sampler_ok, ub_crash \in BOOLEAN :
            llama_create_context(path, n, g, load_ok, ctx_ok, sampler_ok,
                                 ub_crash)
    \/ \E h \in CtxArgs : llama_destroy_context(h)
    \/ \E h \in CtxArgs, p \in SystemPromptArgs :
            /\ h = NULL => p = NullStr
            /\ llama_set_system_prompt(h, p)
    \/ \E h \in CtxArgs, p \in UserPromptArgs, m \in MaxTokensArgs :
            /\ h = NULL => (p = NullStr /\ m = 512)
            /\ m = 1 => p = CStr(<<"a", "b">>)
            /\ llama_process_user_prompt(h, p, m)
    \/ \E h \in CtxArgs : llama_generate_next_token(h)
    \/ \E h \in CtxArgs : llama_reset_context(h)

Spec == Init /\ [][Next]_vars

----------------------------------------------------------------------------
(* Two Sessions, each driven by its own thread *)

\* The scheduler runs the other thread: its Session becomes the one the
\* calls act on.  Nothing runs once the process has died.
Switch ==
    /\ phase # "crashed"
    /\ thread' = 3 - thread
    /\ other' = Saved
    /\ phase' = other.phase
    /\ model' = other.model /\ ctx' = other.ctx /\ sampler' = other.sampler
    /\ vocab' = other.vocab /\ tokens' = other.tokens
    /\ system_prompt' = other.system_prompt
    /\ last_error' = other.last_error /\ loaded' = other.loaded
    /\ n_ctx' = other.n_ctx /\ n_gpu_layers' = other.n_gpu_layers
    /\ eng_live' = other.eng_live /\ eng_freed' = other.eng_freed
    /\ kv' = other.kv /\ logits' = other.logits
    /\ op' = other.op /\ arg_ctx' = other.arg_ctx
    /\ arg_prompt' = other.arg_prompt
    /\ arg_max_tokens' = other.arg_max_tokens
    /\ ret' = other.ret /\ batch' = other.batch
    /\ result' = other.result /\ sampled' = other.sampled
    /\ run' = other.run
    /\ UNCHANGED result_str

\* Each thread creates its Session, stores the system prompt "a" while the
\* Session holds no conversation, prefills the user prompt "b", generates
\* while the tracked sequence is shorter than TwoMaxSeqLen, and resets.  The
\* engine reports a failed decode with the code 1, and the sampler of thread
\* 1 draws "a" and that of thread 2 "b" when it draws no end-of-generation
\* token.
NextTwo ==
    \/ llama_create_context("model.gguf", 0, 0, TRUE, TRUE, TRUE, FALSE)
    \/ /\ system_prompt = <<>> /\ tokens = <<>>
       /\ llama_set_system_prompt("session", CStr(<<"a">>))
    \/ /\ llama_process_user_prompt("session", CStr(<<"b">>), 512)
       /\ result' # -1
    \/ /\ Len(tokens) < TwoMaxSeqLen
       /\ llama_generate_next_token("session")
       /\ result' # -1
       /\ sampled' # (IF thread = 1 THEN TokB ELSE TokA)
    \/ llama_reset_context("session")
    \/ Switch

SpecTwo == Init /\ [][NextTwo]_vars

----------------------------------------------------------------------------
(* Properties *)

\* The last call was given the Session's handle and has returned.
OnSession == arg_ctx = "session" /\ ret # NoReturn

Range(n) == 0..(n - 1)

\* C1: after Create returns, either the Session is loaded with the model,
\* runtime-context and sampler handles all non-null, or it is not loaded, its
\* last-error is set and every engine object still allocated is one of the
\* handles it holds (so Destroy releases it); loaded with a null handle is
\* never reachable.
C1_CreateAllOrNothing ==
    (op = "create" /\ phase = "live") =>
        \/ loaded /\ model # NULL /\ ctx # NULL /\ sampler # NULL
        \/ /\ ~loaded
           /\ last_error # ErrNone
           /\ eng_live \subseteq {model, ctx, sampler}

\* The last call submitted a decode and the engine accepted it.
DecodeSucceeded ==
    /\ OnSession
    /\ batch # <<>>
    /\ \/ op = "process_user_prompt" /\ ret = RetOk
       \/ op = "generate_next_token" /\ ret[1] = "str"

\* C2: after every successful decode (prefill or step), the positions the KV
\* cache holds for sequence 0 are exactly 0..len-1, len the length of the
\* tracked sequence.
C2_KvMatchesSequence ==
    DecodeSucceeded => kv = Range(Len(tokens))

\* C3: every GenerateNextToken call made after a successful prefill either
\* returns a text fragment and the tracked sequence is one longer, or returns
\* nullptr and the tracked sequence has the length it had.
C3_StepGrowsOrKeeps ==
    [][(op' = "generate_next_token" /\ arg_ctx' = "session"
            /\ ret' # NoReturn /\ run # NoRun)
        => \/ ret'[1] = "str" /\ Len(tokens') = Len(tokens) + 1
           \/ ret' = RetNull /\ Len(tokens') = Len(tokens)]_vars

\* tokenize(S, start=true) + tokenize(U, start=false), S left out when empty.
ExpectedSequence(S, U) ==
    (IF S = <<>> THEN <<>> ELSE common_tokenize(S, TRUE))
        \o common_tokenize(U, FALSE)

\* C4: a ProcessUserPrompt call on a loaded Session with stored system prompt
\* S and a user prompt U of at least one token leaves the tracked sequence
\* equal to tokenize(S, true) + tokenize(U, false) (tokenize(U, false) alone
\* when S is empty), of length > 0, whatever the sequence was before.
C4_PrefillReplacesSequence ==
    (op = "process_user_prompt" /\ OnSession /\ loaded
        /\ ~arg_prompt.null /\ common_tokenize(arg_prompt.text, FALSE) # <<>>)
    => /\ tokens = ExpectedSequence(system_prompt, arg_prompt.text)
       /\ Len(tokens) > 0

C4_Witness ==
    /\ op = "process_user_prompt" /\ OnSession /\ loaded
    /\ system_prompt = <<"a">>
    /\ arg_prompt = CStr(<<"a", "b">>)
    /\ tokens = <<BOS, TokA, TokA, TokB>>
    /\ ret = RetOk /\ kv = {0, 1, 2, 3}

ReleaseRank(x) ==
    CASE x = "sampler" -> 1 [] x = "ctx" -> 2 [] x = "model" -> 3 [] OTHER -> 0

\* C5: once Destroy has run, every engine object that was allocated has been
\* released exactly once (none left allocated, none released twice, no null
\* handle released), in the order sampler, runtime context, model.
C5_DestroyReleasesOnce ==
    phase = "destroyed" =>
        /\ eng_live = {}
        /\ \A i \in 1..Len(eng_freed) : ReleaseRank(eng_freed[i]) > 0
        /\ \A i, j \in 1..Len(eng_freed) :
            i < j => ReleaseRank(eng_freed[i]) < ReleaseRank(eng_freed[j])
        /\ loaded /\ sampler # NULL => eng_freed = <<"sampler", "ctx", "model">>
        /\ ~loaded /\ vocab # NULL => eng_freed = <<"model">>
        /\ ~loaded /\ vocab = NULL => eng_freed = <<>>

C5_Witness ==
    /\ phase = "destroyed"
    /\ ~loaded /\ last_error = ErrCreateCtx
    /\ eng_freed = <<"model">>

\* C6: Reset on a loaded Session yields an empty tracked sequence, an empty
\* system prompt and an empty KV cache, and leaves loaded = true and the
\* model, runtime-context and sampler handles unchanged and unreleased.
C6_ResetClears ==
    [][(op' = "reset" /\ arg_ctx' = "session" /\ loaded)
        => /\ tokens' = <<>> /\ system_prompt' = <<>> /\ kv' = {}
           /\ loaded'
           /\ model' = model /\ ctx' = ctx /\ sampler' = sampler
           /\ eng_live' = eng_live /\ eng_freed' = eng_freed]_vars

C6_Witness ==
    /\ op = "reset" /\ OnSession /\ loaded
    /\ last_error = ErrDecode(1)
    /\ tokens = <<>> /\ system_prompt = <<>> /\ kv = {}
    /\ eng_live = {"model", "ctx", "sampler"}

\* The last call was a ProcessUserPrompt whose user prompt has no tokens.
EmptyUserPrompt ==
    /\ op = "process_user_prompt" /\ arg_ctx = "session"
    /\ ~arg_prompt.null /\ common_tokenize(arg_prompt.text, FALSE) = <<>>

\* C7 (as stated): a ProcessUserPrompt call whose user prompt tokenizes to
\* zero tokens returns failure with the tokenization error as last-error and
\* submits no decode (the KV cache is as before), with or without a stored
\* system prompt.
C7_EmptyPromptFails_AnySession ==
    [][EmptyUserPrompt'
        => /\ ret' = RetFail /\ last_error' = ErrTokenize
           /\ batch' = <<>> /\ kv' = kv]_vars

\* C7 (amended): on a loaded Session, a ProcessUserPrompt call whose user
\* prompt tokenizes to zero tokens returns failure with the tokenization
\* error as last-error and submits no decode (the KV cache is as before),
\* with or without a stored system prompt.
C7_EmptyPromptFails ==
    [][(EmptyUserPrompt' /\ loaded)
        => /\ ret' = RetFail /\ last_error' = ErrTokenize
           /\ batch' = <<>> /\ kv' = kv]_vars

C7_Witness ==
    /\ EmptyUserPrompt /\ loaded
    /\ system_prompt = <<"a">>
    /\ kv = {0, 1}
    /\ ret = RetFail /\ last_error = ErrTokenize

\* The failure value of the last operation.
FailureValue ==
    CASE op \in {"set_system_prompt", "process_user_prompt"} -> RetFail
      [] op = "generate_next_token" -> RetNull
      [] OTHER -> RetVoid

SessionOps ==
    {"set_system_prompt", "process_user_prompt", "generate_next_token", "reset"}

\* C8 (as stated): on a Session that is not loaded, SetSystemPrompt,
\* ProcessUserPrompt, GenerateNextToken and Reset return their failure value,
\* touch no engine state and leave the whole Session state, last-error
\* included, as it was.
C8_NotLoadedNoOp_Strict ==
    [][(phase = "live" /\ ~loaded /\ arg_ctx' = "session" /\ op' \in SessionOps)
        => /\ ret' = FailureValue' /\ batch' = <<>>
           /\ session' = session /\ engine' = engine /\ phase' = phase]_vars

\* C8 (amended): on a Session that is not loaded, the four operations return
\* their failure value, touch no engine state and leave the token sequence,
\* system prompt, handles and loaded flag as they were; SetSystemPrompt, and
\* ProcessUserPrompt given a non-null prompt, overwrite last-error with
\* "Model not loaded", the other calls leave last-error as it was.
C8_NotLoadedNoOp ==
    [][(phase = "live" /\ ~loaded /\ arg_ctx' = "session" /\ op' \in SessionOps)
        => /\ ret' = FailureValue' /\ batch' = <<>>
           /\ engine' = engine /\ phase' = phase
           /\ <<model, ctx, sampler, vocab, tokens, system_prompt, loaded,
                n_ctx, n_gpu_layers>>'
              = <<model, ctx, sampler, vocab, tokens, system_prompt, loaded,
                  n_ctx, n_gpu_layers>>
           /\ last_error' =
                IF \/ op' = "set_system_prompt"
                   \/ op' = "process_user_prompt" /\ ~arg_prompt'.null
                THEN ErrNotLoaded ELSE last_error]_vars

C8_Witness ==
    /\ phase = "live" /\ ~loaded /\ OnSession
    /\ op = "process_user_prompt" /\ arg_prompt = CStr(<<"b">>)
    /\ ret = RetFail /\ last_error = ErrNotLoaded
    /\ tokens = <<>> /\ batch = <<>> /\ kv = {}
    /\ model = NULL /\ vocab = "vocab"

DecodeErrors == {ErrDecode(c) : c \in DecodeFailCodes}

\* C9: every failing call on the Session leaves a message for that failure as
\* last-error: SetSystemPrompt or ProcessUserPrompt returning -1, and
\* GenerateNextToken returning nullptr because the Session is not loaded or
\* because the step decode failed.
C9_FailureRecorded ==
    [][(arg_ctx' = "session" /\ phase = "live")
        => /\ (op' = "set_system_prompt" /\ ret' = RetFail)
                => last_error' = ErrNotLoaded
           /\ (op' = "process_user_prompt" /\ ret' = RetFail)
                => last_error' \in
                    {ErrNotLoaded, ErrTokenize, ErrNoTokens} \cup DecodeErrors
           /\ (op' = "generate_next_token" /\ ret' = RetNull /\ ~loaded)
                => last_error' = ErrNotLoaded
           /\ (op' = "generate_next_token" /\ ret' = RetNull /\ batch' # <<>>)
                => last_error' \in DecodeErrors]_vars

\* C10 (as stated): after a successful prefill of length L < W, a nullptr is
\* returned within W - L GenerateNextToken calls: fewer than W - L calls in a
\* row return text.
C10_EndsWithinWindow_Strict ==
    (run # NoRun /\ run.L < n_ctx) => run.k < n_ctx - run.L

\* C10 (amended): after a successful prefill of length L < W, a nullptr is
\* returned within W - L + 1 GenerateNextToken calls: at most W - L calls in
\* a row return text.
C10_EndsWithinWindow ==
    (run # NoRun /\ run.L < n_ctx) => run.k <= n_ctx - run.L

C10_Witness ==
    /\ run # NoRun /\ n_ctx = SmallNCtx /\ run.L < n_ctx
    /\ run.k = n_ctx - run.L
    /\ op = "generate_next_token" /\ ret[1] = "str"
    /\ Len(tokens) = n_ctx

\* C11: ProcessUserPrompt treats max_tokens as a safety limit: the prefill
\* batch it submits holds at most max_tokens tokens (checked on Sessions
\* whose Create built every handle).
C11_MaxTokensLimit ==
    (op = "process_user_prompt" /\ OnSession /\ sampler # NULL)
        => Len(batch) <= arg_max_tokens

\* C12: with two Sessions, each used by its own thread, a call made by one
\* thread changes neither the other Session's state and last return value
\* nor the text fragment last returned to the other thread; the buffer of a
\* thread is written only by a GenerateNextToken of that thread that returns
\* text.
C12_NoInterference ==
    [][thread' = thread
        => /\ other' = other
           /\ \A u \in Threads \ {thread} : result_str'[u] = result_str[u]
           /\ result_str' # result_str
                => op' = "generate_next_token" /\ ret'[1] = "str"]_vars

\* Thread 2 has just been handed "b" while the fragment "a" handed to
\* thread 1 before is still in thread 1's buffer.
C12_Witness ==
    /\ thread = 2 /\ op = "generate_next_token" /\ ret = RetText("b")
    /\ result_str[2] = "b" /\ result_str[1] = "a"
    /\ other.ret = RetText("a") /\ other.tokens = <<TokB, TokA>>

\* C13: every batch handed to the engine has the documented shape.  A
\* prefill batch holds all N tracked tokens, entry i at position i, in
\* sequence 0, with logits requested on entry N - 1 only; a step batch holds
\* exactly the token just sampled and appended, at the position equal to the
\* tracked length before the append, in sequence 0, with logits requested.
C13_BatchShape ==
    (OnSession /\ batch # <<>>)
        => /\ op \in {"process_user_prompt", "generate_next_token"}
           /\ op = "process_user_prompt"
                => /\ Len(batch) = Len(tokens)
                   /\ \A i \in 1..Len(batch) :
                        /\ batch[i].token = tokens[i]
                        /\ batch[i].pos = i - 1
                        /\ batch[i].seq_id = 0
                        /\ batch[i].logits = (i = Len(batch))
           /\ op = "generate_next_token"
                => /\ Len(batch) = 1
                   /\ batch[1].token = sampled
                   /\ batch[1].token = tokens[Len(tokens)]
                   /\ batch[1].pos = Len(tokens) - 1
                   /\ batch[1].seq_id = 0
                   /\ batch[1].logits

\* A prefill batch of three tokens followed by a step batch at position 3.
C13_Witness ==
    /\ op = "generate_next_token" /\ OnSession /\ ret[1] = "str"
    /\ run # NoRun /\ run.L = 3 /\ run.k = 1
    /\ batch = <<[token |-> sampled, pos |-> 3, seq_id |-> 0,
                  logits |-> TRUE]>>

\* C14: when the sampled token is an end-of-generation token,
\* GenerateNextToken returns the end-of-sequence value and leaves the tracked
\* sequence, the stored system prompt, the KV cache and last-error as they
\* were: nothing is appended and no decode is submitted.
C14_EogLeavesState ==
    [][(op' = "generate_next_token" /\ arg_ctx' = "session"
            /\ sampled' = EOG)
        => /\ ret' = RetNull
           /\ batch' = <<>>
           /\ tokens' = tokens
           /\ system_prompt' = system_prompt
           /\ kv' = kv
           /\ last_error' = last_error]_vars

C14_Witness ==
    /\ op = "generate_next_token" /\ OnSession /\ sampled = EOG
    /\ ret = RetNull /\ batch = <<>>
    /\ tokens = <<BOS, TokA, TokB>> /\ kv = {0, 1, 2}
    /\ system_prompt = <<"a">> /\ last_error = ErrTokenize

\* C15: when the prefill decode returns a non-zero code, ProcessUserPrompt
\* returns failure, last-error records the decode failure with that code, and
\* the tracked sequence is not rolled back: it is the rebuilt
\* tokenize(system, true) + tokenize(user, false).
C15_PrefillFailureKeepsTokens ==
    (op = "process_user_prompt" /\ OnSession /\ batch # <<>> /\ result # 0)
        => /\ ret = RetFail
           /\ last_error = ErrDecode(result)
           /\ tokens = ExpectedSequence(system_prompt, arg_prompt.text)

\* A prefill of three tokens rejected with the code -1, on a KV cache that
\* still holds one position of an earlier prefill.
C15_Witness ==
    /\ op = "process_user_prompt" /\ OnSession /\ ret = RetFail
    /\ result = -1 /\ last_error = ErrDecode(-1)
    /\ tokens = <<BOS, TokA, TokB>> /\ Len(batch) = 3
    /\ kv = {0}

\* C16: Reset is a sufficient recovery.  From any reachable state of a loaded
\* Session, Reset followed by a ProcessUserPrompt whose decode succeeds
\* leaves the KV cache holding exactly the positions 0..N-1, N the tracked
\* length.
C16_ResetRecovers ==
    (op = "process_user_prompt" /\ OnSession /\ ret = RetOk /\ run.r)
        => kv = Range(Len(tokens))

\* The prefill follows a Reset made after a decode failure.
C16_Witness ==
    /\ op = "process_user_prompt" /\ OnSession /\ ret = RetOk
    /\ run.r /\ run.k = 0
    /\ last_error \in DecodeErrors
    /\ tokens = <<TokA, TokB>> /\ kv = {0, 1}

\* C17: SetSystemPrompt on a loaded Session stores the text (the empty text
\* for a null pointer), clears the tracked sequence and returns success
\* without calling the engine; ProcessUserPrompt and GenerateNextToken leave
\* the stored text alone, and every ProcessUserPrompt that builds a batch
\* builds it from the stored text.
C17_SystemPromptStored ==
    [][(phase = "live" /\ arg_ctx' = "session")
        => /\ (op' = "set_system_prompt" /\ loaded)
                => /\ system_prompt' =
                        (IF arg_prompt'.null THEN <<>> ELSE arg_prompt'.text)
                   /\ tokens' = <<>>
                   /\ ret' = RetOk
                   /\ batch' = <<>>
                   /\ kv' = kv /\ eng_live' = eng_live
                   /\ eng_freed' = eng_freed
           /\ op' \in {"process_user_prompt", "generate_next_token"}
                => system_prompt' = system_prompt
           /\ (op' = "process_user_prompt" /\ batch' # <<>>)
                => tokens' = ExpectedSequence(system_prompt,
                                              arg_prompt'.text)]_vars

\* SetSystemPrompt("a") on a Session that holds a decoded conversation.
C17_Witness ==
    /\ op = "set_system_prompt" /\ OnSession /\ loaded /\ ret = RetOk
    /\ arg_prompt = CStr(<<"a">>) /\ system_prompt = <<"a">>
    /\ tokens = <<>> /\ kv = {0, 1, 2}

\* The call that has just returned on the Session succeeded.
Succeeded ==
    \/ op \in {"set_system_prompt", "process_user_prompt"} /\ ret = RetOk
    \/ op = "generate_next_token" /\ ret[1] = "str"
    \/ op = "reset"

\* C18: no successful operation clears or modifies last-error, and a
\* last-error that is set is never emptied again: it is empty only if no
\* failure was recorded since Create.
C18_ErrorSticks ==
    [][(phase = "live" /\ arg_ctx' = "session")
        => /\ Succeeded' => last_error' = last_error
           /\ last_error # ErrNone => last_error' # ErrNone]_vars

\* A prefill succeeds while last-error still holds an earlier failure.
C18_Witness ==
    /\ op = "process_user_prompt" /\ OnSession /\ ret = RetOk
    /\ last_error = ErrTokenize
    /\ kv = {0, 1}

\* C19: GenerateNextToken samples only when the logits come from a successful
\* decode on the current tracked sequence: never right after Create, after
\* Reset, after SetSystemPrompt, or after a failed prefill or step decode.
C19_SamplesFreshLogits ==
    [][(phase = "live" /\ op' = "generate_next_token"
            /\ sampled' # NoToken)
        => logits = "fresh"]_vars

\* C20: on a loaded Session the tracked length never exceeds the context
\* window n_ctx (checked on Sessions whose Create built every handle).
C20_TokensWithinWindow ==
    (phase = "live" /\ loaded /\ sampler # NULL) => Len(tokens) <= n_ctx

====
